---- MODULE Spec2Model ----
(***************************************************************************)
(* A model of the token transformation of scripts/generateTokens.mjs       *)
(* (class FigmaTokenParser): flattenTokens, convertValue,                  *)
(* processStringReferences, normalizeTokenName and the stylesheet          *)
(* generators that generateSCSS runs.                                      *)
(*                                                                         *)
(* A JavaScript string is a sequence of one-character strings.  No key or  *)
(* value of the modelled documents holds a line break, so a generated text *)
(* is the sequence of its lines (what content.split("\n") yields).         *)
(***************************************************************************)
EXTENDS Naturals, Sequences, FiniteSets

\* ------------------------------------------------------------------------
\* Characters and the String.prototype methods the program uses
\* ------------------------------------------------------------------------

LowerLetters ==
  <<"a","b","c","d","e","f","g","h","i","j","k","l","m",
    "n","o","p","q","r","s","t","u","v","w","x","y","z">>

UpperLetters ==
  <<"A","B","C","D","E","F","G","H","I","J","K","L","M",
    "N","O","P","Q","R","S","T","U","V","W","X","Y","Z">>

DigitChars ==
  <<"0","1","2","3","4","5","6","7","8","9">>

Range(s) ==
  { s[i] : i \in DOMAIN s }

IsLower(c) ==
  c \in Range(LowerLetters)

IsUpper(c) ==
  c \in Range(UpperLetters)

IsDigit(c) ==
  c \in Range(DigitChars)

\* \s of a regular expression, and what trim() strips
IsSpace(c) ==
  c \in {" ", "\t"}

LetterIndex(letters, c) ==
  CHOOSE i \in DOMAIN letters : letters[i] = c

ToLowerChar(c) ==
  IF IsUpper(c) THEN LowerLetters[LetterIndex(UpperLetters, c)] ELSE c

ToUpperChar(c) ==
  IF IsLower(c) THEN UpperLetters[LetterIndex(LowerLetters, c)] ELSE c

toLowerCase(s) ==
  [i \in DOMAIN s |-> ToLowerChar(s[i])]

toUpperCase(s) ==
  [i \in DOMAIN s |-> ToUpperChar(s[i])]

\* s.slice(from) with a 0-based index
slice(s, from) ==
  SubSeq(s, from + 1, Len(s))

\* whether p occurs in s at the 1-based position i
StartsAt(s, i, p) ==
  /\ i >= 1
  /\ i + Len(p) - 1 <= Len(s)
  /\ SubSeq(s, i, i + Len(p) - 1) = p

startsWith(s, p) ==
  StartsAt(s, 1, p)

includes(s, p) ==
  \E i \in 1..(Len(s) + 1) : StartsAt(s, i, p)

\* the 1-based position of the first occurrence of p in s from position
\* from on, 0 when there is none
IndexFrom(s, p, from) ==
  IF \E i \in from..(Len(s) + 1) : StartsAt(s, i, p)
  THEN CHOOSE i \in from..(Len(s) + 1) :
         /\ StartsAt(s, i, p)
         /\ \A j \in from..(i - 1) : ~StartsAt(s, j, p)
  ELSE 0

RECURSIVE TrimStart(_)
TrimStart(s) ==
  IF s # <<>> /\ IsSpace(Head(s)) THEN TrimStart(Tail(s)) ELSE s

RECURSIVE TrimEnd(_)
TrimEnd(s) ==
  IF s # <<>> /\ IsSpace(s[Len(s)]) THEN TrimEnd(SubSeq(s, 1, Len(s) - 1)) ELSE s

trim(s) ==
  TrimEnd(TrimStart(s))

\* parts.join(sep)
RECURSIVE join(_, _)
join(parts, sep) ==
  IF parts = <<>> THEN <<>>
  ELSE IF Len(parts) = 1 THEN parts[1]
  ELSE parts[1] \o sep \o join(Tail(parts), sep)

\* s.split(c) for a one-character separator c
RECURSIVE split(_, _)
split(s, c) ==
  LET at == IndexFrom(s, <<c>>, 1)
  IN  IF at = 0 THEN <<s>>
      ELSE <<SubSeq(s, 1, at - 1)>> \o split(SubSeq(s, at + 1, Len(s)), c)

\* s.replace(p, r) with a string pattern: the first occurrence only
replaceFirst(s, p, r) ==
  LET at == IndexFrom(s, p, 1)
  IN  IF at = 0 THEN s
      ELSE SubSeq(s, 1, at - 1) \o r \o SubSeq(s, at + Len(p), Len(s))

\* s.charAt(0).toUpperCase() + s.slice(1)
Capitalize(s) ==
  IF s = <<>> THEN <<>> ELSE <<ToUpperChar(s[1])>> \o slice(s, 1)

\* the concatenation of a sequence of strings (or of a sequence of
\* sequences of lines)
RECURSIVE Flatten(_)
Flatten(ss) ==
  IF ss = <<>> THEN <<>> ELSE Head(ss) \o Flatten(Tail(ss))

\* String(n) for a natural number n
RECURSIVE NumToStr(_)
NumToStr(n) ==
  IF n < 10 THEN <<DigitChars[n + 1]>>
  ELSE NumToStr(n \div 10) \o <<DigitChars[(n % 10) + 1]>>

\* ------------------------------------------------------------------------
\* normalizeTokenName and normalizeReferencePath
\* ------------------------------------------------------------------------

\* .replace(/([a-z])([A-Z])/g, "$1-$2")
RECURSIVE HyphenateCamel(_)
HyphenateCamel(s) ==
  IF Len(s) < 2 THEN s
  ELSE IF IsLower(s[1]) /\ IsUpper(s[2])
       THEN <<s[1], "-", s[2]>> \o HyphenateCamel(SubSeq(s, 3, Len(s)))
       ELSE <<s[1]>> \o HyphenateCamel(Tail(s))

\* .replace(/[A-Z]/g, (letter) => `-${letter.toLowerCase()}`)
RECURSIVE HyphenateUpper(_)
HyphenateUpper(s) ==
  IF s = <<>> THEN <<>>
  ELSE (IF IsUpper(Head(s)) THEN <<"-", ToLowerChar(Head(s))>> ELSE <<Head(s)>>)
       \o HyphenateUpper(Tail(s))

\* .replace(/\s+/g, "-")
RECURSIVE SpacesToHyphen(_)
SpacesToHyphen(s) ==
  IF s = <<>> THEN <<>>
  ELSE IF IsSpace(Head(s))
       THEN <<"-">> \o SpacesToHyphen(TrimStart(s))
       ELSE <<Head(s)>> \o SpacesToHyphen(Tail(s))

\* .replace(/[^a-z0-9-]/g, "")
StripInvalid(s) ==
  SelectSeq(s, LAMBDA c : IsLower(c) \/ IsDigit(c) \/ c = "-")

RECURSIVE StripLeadingHyphens(_)
StripLeadingHyphens(s) ==
  IF s # <<>> /\ Head(s) = "-" THEN StripLeadingHyphens(Tail(s)) ELSE s

RECURSIVE StripTrailingHyphens(_)
StripTrailingHyphens(s) ==
  IF s # <<>> /\ s[Len(s)] = "-"
  THEN StripTrailingHyphens(SubSeq(s, 1, Len(s) - 1))
  ELSE s

\* .replace(/^-+|-+$/g, "")
TrimHyphens(s) ==
  StripTrailingHyphens(StripLeadingHyphens(s))

\* a slip in the order of the chain: the hyphens are trimmed before the
\* invalid characters are stripped
normalizeTokenName_TrimFirst(name) ==
  toLowerCase(StripInvalid(TrimHyphens(
    SpacesToHyphen(HyphenateUpper(HyphenateCamel(name))))))

normalizeTokenName(name) ==
  toLowerCase(TrimHyphens(StripInvalid(
    SpacesToHyphen(HyphenateUpper(HyphenateCamel(name))))))

normalizeReferencePath(refPath) ==
  join([i \in DOMAIN split(refPath, ".") |->
          normalizeTokenName(split(refPath, ".")[i])], <<"-">>)

\* ------------------------------------------------------------------------
\* processStringReferences, needsCalc, globalFixReferences
\* ------------------------------------------------------------------------

\* .replace(/\{([^}]+)\}/g, (match, refPath) =>
\*    `var(--${normalizeReferencePath(refPath.trim())})`)
\* A "{" opens a match when a "}" follows it with at least one character in
\* between; the match runs to the first such "}".
RECURSIVE ReplaceReferences(_)
ReplaceReferences(s) ==
  IF s = <<>> THEN <<>>
  ELSE IF Head(s) = "{" /\ IndexFrom(s, <<"}">>, 2) > 2
       THEN LET close == IndexFrom(s, <<"}">>, 2)
            IN  <<"v","a","r","(","-","-">>
                  \o normalizeReferencePath(trim(SubSeq(s, 2, close - 1)))
                  \o <<")">>
                  \o ReplaceReferences(SubSeq(s, close + 1, Len(s)))
       ELSE <<Head(s)>> \o ReplaceReferences(Tail(s))

needsCalc(str, type) ==
  LET hasMath == \E i \in DOMAIN str : str[i] \in {"+", "-", "*", "/"}
      hasVar  == includes(str, <<"v","a","r","(","-","-">>)
  IN  hasMath /\ hasVar /\ ~startsWith(str, <<"c","a","l","c","(">>)

processStringReferences(str, type) ==
  LET withReferences == ReplaceReferences(str)
  IN  IF needsCalc(withReferences, type)
      THEN <<"c","a","l","c","(">> \o withReferences \o <<")">>
      ELSE withReferences

\* content is the sequence of the lines of the text
globalFixReferences(content) ==
  [i \in DOMAIN content |->
     IF \/ startsWith(trim(content[i]), <<"-","-">>)
        \/ startsWith(trim(content[i]), <<"/","/">>)
        \/ trim(content[i]) = <<>>
     THEN content[i]
     ELSE ReplaceReferences(content[i])]

\* ------------------------------------------------------------------------
\* JavaScript values: the parsed token document and what convertValue
\* returns
\* ------------------------------------------------------------------------

Undefined ==
  [t |-> "undefined"]

Null ==
  [t |-> "null"]

Num(n) ==
  [t |-> "number", n |-> n]

Str(s) ==
  [t |-> "string", s |-> s]

Bool(b) ==
  [t |-> "boolean", b |-> b]

\* an object: the sequence of its <<key, value>> entries, in insertion order
Obj(entries) ==
  [t |-> "object", e |-> entries]

Arr(items) ==
  [t |-> "array", a |-> items]

\* the outcome of an evaluation that threw a TypeError
Thrown ==
  [t |-> "TypeError"]

\* typeof v === "object" && v !== null
IsObject(v) ==
  v.t \in {"object", "array"}

IsUndefined(v) ==
  v.t = "undefined"

IsThrown(v) ==
  v.t = "TypeError"

IsNullish(v) ==
  v.t \in {"null", "undefined"}

\* a === b for a string constant b
IsString(v, s) ==
  v.t = "string" /\ v.s = s

\* the boolean a value converts to
Truthy(v) ==
  CASE v.t = "undefined" -> FALSE
    [] v.t = "null"      -> FALSE
    [] v.t = "number"    -> v.n # 0
    [] v.t = "string"    -> v.s # <<>>
    [] v.t = "boolean"   -> v.b
    [] OTHER             -> TRUE

\* a || b
Or(a, b) ==
  IF Truthy(a) THEN a ELSE b

\* v.key for a non-nullish v and a key that is neither an array index nor
\* "length": the value of the own property, undefined when there is none
Get(v, key) ==
  IF v.t = "object" /\ \E i \in DOMAIN v.e : v.e[i][1] = key
  THEN v.e[CHOOSE i \in DOMAIN v.e : v.e[i][1] = key][2]
  ELSE Undefined

\* Object.entries(v) for a non-nullish v
Entries(v) ==
  CASE v.t = "object" -> v.e
    [] v.t = "array"  -> [i \in DOMAIN v.a |-> <<NumToStr(i - 1), v.a[i]>>]
    [] v.t = "string" -> [i \in DOMAIN v.s |-> <<NumToStr(i - 1), Str(<<v.s[i]>>)>>]
    [] OTHER          -> <<>>

\* String(v), the conversion of a template literal `${v}`
RECURSIVE StringOf(_)
StringOf(v) ==
  CASE v.t = "string"    -> v.s
    [] v.t = "number"    -> NumToStr(v.n)
    [] v.t = "boolean"   -> IF v.b THEN <<"t","r","u","e">> ELSE <<"f","a","l","s","e">>
    [] v.t = "null"      -> <<"n","u","l","l">>
    [] v.t = "undefined" -> <<"u","n","d","e","f","i","n","e","d">>
    [] v.t = "object"    -> <<"[","o","b","j","e","c","t"," ","O","b","j","e","c","t","]">>
    [] v.t = "array"     ->
         join([i \in DOMAIN v.a |->
                 IF IsNullish(v.a[i]) THEN <<>> ELSE StringOf(v.a[i])], <<",">>)

\* the escapes of JSON.stringify for a string
RECURSIVE EscapeJSON(_)
EscapeJSON(s) ==
  IF s = <<>> THEN <<>>
  ELSE (IF Head(s) \in {"\"", "\\"} THEN <<"\\", Head(s)>> ELSE <<Head(s)>>)
       \o EscapeJSON(Tail(s))

\* JSON.stringify(v) for a value of a parsed JSON document
RECURSIVE JSONStringify(_)
JSONStringify(v) ==
  CASE v.t = "string"  -> <<"\"">> \o EscapeJSON(v.s) \o <<"\"">>
    [] v.t = "number"  -> NumToStr(v.n)
    [] v.t = "boolean" -> IF v.b THEN <<"t","r","u","e">> ELSE <<"f","a","l","s","e">>
    [] v.t = "null"    -> <<"n","u","l","l">>
    [] v.t = "array"   ->
         <<"[">> \o join([i \in DOMAIN v.a |-> JSONStringify(v.a[i])], <<",">>) \o <<"]">>
    [] v.t = "object"  ->
         <<"{">> \o join([i \in DOMAIN v.e |->
                        <<"\"">> \o EscapeJSON(v.e[i][1]) \o <<"\"",":">>
                          \o JSONStringify(v.e[i][2])], <<",">>) \o <<"}">>

\* ------------------------------------------------------------------------
\* convertValue
\* ------------------------------------------------------------------------

isBoxShadow(obj) ==
  /\ Truthy(obj)
  /\ \/ (~IsUndefined(Get(obj, <<"x">>)) /\ ~IsUndefined(Get(obj, <<"y">>)))
     \/ IsString(Get(obj, <<"t","y","p","e">>), <<"d","r","o","p","S","h","a","d","o","w">>)
     \/ IsString(Get(obj, <<"t","y","p","e">>), <<"i","n","n","e","r","S","h","a","d","o","w">>)

\* reading shadow.x of a null or undefined shadow throws
convertShadowObject(shadow) ==
  IF IsNullish(shadow) THEN Thrown
  ELSE LET x      == Or(Get(shadow, <<"x">>), Num(0))
           y      == Or(Get(shadow, <<"y">>), Num(0))
           blur   == Or(Get(shadow, <<"b","l","u","r">>), Num(0))
           spread == Or(Get(shadow, <<"s","p","r","e","a","d">>), Num(0))
           color  == Or(Get(shadow, <<"c","o","l","o","r">>), Str(<<"#","0","0","0">>))
           type   == Or(Get(shadow, <<"t","y","p","e">>), Str(<<"d","r","o","p","S","h","a","d","o","w">>))
           inset  == IF IsString(type, <<"i","n","n","e","r","S","h","a","d","o","w">>) THEN <<"i","n","s","e","t"," ">> ELSE <<>>
       IN  Str(inset \o StringOf(x) \o <<"p","x"," ">> \o StringOf(y) \o <<"p","x"," ">>
                 \o StringOf(blur) \o <<"p","x"," ">> \o StringOf(spread) \o <<"p","x"," ">>
                 \o StringOf(color))

\* value.map((shadow) => this.convertShadowObject(shadow)).join(", ")
ConvertShadowArray(items) ==
  LET each == [i \in DOMAIN items |-> convertShadowObject(items[i])]
  IN  IF \E i \in DOMAIN each : IsThrown(each[i])
      THEN Thrown
      ELSE Str(join([i \in DOMAIN each |-> each[i].s], <<","," ">>))

\* const { width = 1, style = "solid", color = "#000" } = value
Default(v, d) ==
  IF IsUndefined(v) THEN d ELSE v

RECURSIVE convertValue(_, _)
convertValue(value, type) ==
  IF IsObject(value) THEN
    IF ~IsUndefined(Get(value, <<"v","a","l","u","e">>)) THEN
      convertValue(Get(value, <<"v","a","l","u","e">>), Get(value, <<"t","y","p","e">>))
    ELSE IF IsString(type, <<"b","o","x","S","h","a","d","o","w">>) \/ isBoxShadow(value) THEN
      IF value.t = "array"
      THEN ConvertShadowArray(value.a)
      ELSE convertShadowObject(value)
    ELSE IF IsString(type, <<"b","o","r","d","e","r">>) THEN
      Str(StringOf(Default(Get(value, <<"w","i","d","t","h">>), Num(1))) \o <<"p","x"," ">>
            \o StringOf(Default(Get(value, <<"s","t","y","l","e">>), Str(<<"s","o","l","i","d">>))) \o <<" ">>
            \o StringOf(Default(Get(value, <<"c","o","l","o","r">>), Str(<<"#","0","0","0">>))))
    ELSE IF IsString(type, <<"t","y","p","o","g","r","a","p","h","y">>) THEN
      Obj(<< <<<<"f","o","n","t","-","f","a","m","i","l","y">>, Or(Get(value, <<"f","o","n","t","F","a","m","i","l","y">>), Str(<<"i","n","h","e","r","i","t">>))>>,
             <<<<"f","o","n","t","-","s","i","z","e">>,
               IF Truthy(Get(value, <<"f","o","n","t","S","i","z","e">>))
               THEN Str(StringOf(Get(value, <<"f","o","n","t","S","i","z","e">>)) \o <<"p","x">>)
               ELSE Str(<<"i","n","h","e","r","i","t">>)>>,
             <<<<"f","o","n","t","-","w","e","i","g","h","t">>, Or(Get(value, <<"f","o","n","t","W","e","i","g","h","t">>), Str(<<"i","n","h","e","r","i","t">>))>>,
             <<<<"l","i","n","e","-","h","e","i","g","h","t">>, Or(Get(value, <<"l","i","n","e","H","e","i","g","h","t">>), Str(<<"i","n","h","e","r","i","t">>))>>,
             <<<<"l","e","t","t","e","r","-","s","p","a","c","i","n","g">>,
               IF Truthy(Get(value, <<"l","e","t","t","e","r","S","p","a","c","i","n","g">>))
               THEN Str(StringOf(Get(value, <<"l","e","t","t","e","r","S","p","a","c","i","n","g">>)) \o <<"p","x">>)
               ELSE Str(<<"n","o","r","m","a","l">>)>> >>)
    ELSE Str(JSONStringify(value))
  ELSE IF value.t = "number" THEN
    IF \/ IsString(type, <<"d","i","m","e","n","s","i","o","n">>)
       \/ IsString(type, <<"s","p","a","c","i","n","g">>)
       \/ IsString(type, <<"b","o","r","d","e","r","R","a","d","i","u","s">>)
    THEN Str(NumToStr(value.n) \o <<"p","x">>)
    ELSE value
  ELSE IF value.t = "string" THEN
    IF includes(value.s, <<"v","a","r","(","-","-">>)
    THEN value
    ELSE Str(processStringReferences(value.s, type))
  ELSE value

\* ------------------------------------------------------------------------
\* flattenTokens
\* ------------------------------------------------------------------------

\* categories: the object { [categoryKey]: { variables: [], mixins: [] } },
\* as the sequence of its properties in insertion order.  A mixin is a text
\* of several lines.
CategoryIndex(categories, key) ==
  CHOOSE i \in DOMAIN categories : categories[i].key = key

HasCategory(categories, key) ==
  \E i \in DOMAIN categories : categories[i].key = key

\* if (!categories[categoryKey]) categories[categoryKey] = {variables: [], mixins: []}
EnsureCategory(categories, key) ==
  IF HasCategory(categories, key) THEN categories
  ELSE Append(categories, [key |-> key, variables |-> <<>>, mixins |-> <<>>])

PushVariables(categories, key, lines) ==
  LET i == CategoryIndex(categories, key)
  IN  [categories EXCEPT ![i].variables = @ \o lines]

PushMixin(categories, key, mixin) ==
  LET i == CategoryIndex(categories, key)
  IN  [categories EXCEPT ![i].mixins = Append(@, mixin)]

\* name.replace(/[\\\/]/g, "-").toLowerCase()
SafeCategoryName(name) ==
  toLowerCase([i \in DOMAIN name |->
                 IF name[i] \in {"\\", "/"} THEN "-" ELSE name[i]])

\* the text of the mixin of a typography token, line by line
MixinContent(tokenName, converted) ==
  <<<<"@","m","i","x","i","n"," ">> \o tokenName \o <<" ","{">>>>
    \o [i \in DOMAIN Entries(converted) |->
          <<" "," ">> \o Entries(converted)[i][1] \o <<":"," ">>
               \o StringOf(Entries(converted)[i][2]) \o <<";">>]
    \o <<<<"}">>>>

TypographyVariables(tokenName, converted) ==
  [i \in DOMAIN Entries(converted) |->
     <<"-","-">> \o tokenName \o <<"-">>
          \o replaceFirst(Entries(converted)[i][1], <<"f","o","n","t","-">>, <<>>)
          \o <<":"," ">> \o StringOf(Entries(converted)[i][2]) \o <<";">>]

\* const tokenType = value.$type || value.type
TokenType(value) ==
  Or(Get(value, <<"$","t","y","p","e">>), Get(value, <<"t","y","p","e">>))

\* const tokenValue = value.$value || value.value
TokenValue(value) ==
  Or(Get(value, <<"$","v","a","l","u","e">>), Get(value, <<"v","a","l","u","e">>))

\* if (typeof converted === "string" && !converted.includes("var(--"))
\*   converted = this.processStringReferences(converted, tokenType)
SecondPass(converted, tokenType) ==
  IF converted.t = "string" /\ ~includes(converted.s, <<"v","a","r","(","-","-">>)
  THEN Str(processStringReferences(converted.s, tokenType))
  ELSE converted

\* What flattenTokens stores for a converted token.  The result is the
\* categories and whether the step threw: converted is Thrown when
\* convertValue threw, and Object.entries(null) throws.
EmitToken(categories, categoryKey, tokenName, tokenType, converted) ==
  IF IsThrown(converted) THEN
    [categories |-> categories, threw |-> TRUE]
  ELSE IF IsString(tokenType, <<"t","y","p","o","g","r","a","p","h","y">>)
          /\ converted.t \in {"object", "array", "null"} THEN
    \* typeof converted === "object"
    IF converted.t = "null" THEN
      [categories |-> categories, threw |-> TRUE]
    ELSE
      [categories |->
         PushVariables(
           PushMixin(categories, categoryKey, MixinContent(tokenName, converted)),
           categoryKey, TypographyVariables(tokenName, converted)),
       threw |-> FALSE]
  ELSE
    [categories |->
       PushVariables(categories, categoryKey,
         <<<<"-","-">> \o tokenName \o <<":"," ">> \o StringOf(converted) \o <<";">>>>),
     threw |-> FALSE]

\* The leaf branch of the loop body: the category is created before the
\* value is looked at.
FlattenLeaf(value, tokenName, baseName, categories) ==
  IF IsNullish(TokenValue(value)) THEN
    [categories |-> EnsureCategory(categories, SafeCategoryName(baseName)),
     threw |-> FALSE]
  ELSE
    EmitToken(EnsureCategory(categories, SafeCategoryName(baseName)),
              SafeCategoryName(baseName), tokenName, TokenType(value),
              SecondPass(convertValue(TokenValue(value), TokenType(value)),
                         TokenType(value)))

RECURSIVE flattenTokens(_, _, _, _)
RECURSIVE FlattenEntries(_, _, _, _, _)
RECURSIVE FlattenEntry(_, _, _, _, _)
RECURSIVE FlattenRest(_, _, _, _, _)

\* the path of the entry: prefix ? `${prefix}-${normalizedKey}` : normalizedKey
CurrentPath(prefix, key) ==
  IF prefix # <<>>
  THEN prefix \o <<"-">> \o normalizeTokenName(key)
  ELSE normalizeTokenName(key)

\* one iteration of the loop over Object.entries(obj)
FlattenEntry(key, value, baseName, categories, prefix) ==
  IF key = <<>> \/ startsWith(key, <<"$">>) THEN
    [categories |-> categories, threw |-> FALSE]
  ELSE IF IsObject(value) /\ Truthy(TokenType(value)) THEN
    FlattenLeaf(value, CurrentPath(prefix, key), baseName, categories)
  ELSE IF value.t = "object" THEN
    flattenTokens(value, baseName, categories, CurrentPath(prefix, key))
  ELSE
    [categories |-> categories, threw |-> FALSE]

\* the iterations after the i-th, whose outcome is step; a throw ends the loop
FlattenRest(step, entries, i, baseName, prefix) ==
  IF step.threw THEN step
  ELSE FlattenEntries(entries, i + 1, baseName, step.categories, prefix)

\* the iterations from the i-th entry on
FlattenEntries(entries, i, baseName, categories, prefix) ==
  IF i > Len(entries) THEN
    [categories |-> categories, threw |-> FALSE]
  ELSE
    FlattenRest(FlattenEntry(entries[i][1], entries[i][2], baseName,
                             categories, prefix),
                entries, i, baseName, prefix)

\* Object.entries(obj) throws for a null or undefined obj
flattenTokens(obj, baseName, categories, prefix) ==
  IF IsNullish(obj) THEN
    [categories |-> categories, threw |-> TRUE]
  ELSE
    FlattenEntries(Entries(obj), 1, baseName, categories, prefix)

\* ------------------------------------------------------------------------
\* The stylesheet generators.  A text is the sequence of its lines, each
\* ended by "\n"; every generated text ends with a line break.
\* ------------------------------------------------------------------------

\* the files written so far: a set of [path, content], one per path
WriteFile(files, path, content) ==
  { f \in files : f.path # path } \cup { [path |-> path, content |-> content] }

\* "\n  // <Title> tokens\n" and the variable lines of each category of the
\* base file that holds variables
VariablesBlocks(categories) ==
  Flatten([k \in DOMAIN categories |->
    IF Len(categories[k].variables) > 0
    THEN <<<<>>, <<" "," ","/","/"," ">> \o Capitalize(categories[k].key) \o <<" ","t","o","k","e","n","s">>>>
           \o [i \in DOMAIN categories[k].variables |->
                 <<" "," ">> \o categories[k].variables[i]]
    ELSE <<>>])

generateVariablesFile(files, categories) ==
  LET content ==
        << <<"/","/"," ","D","e","s","i","g","n"," ","T","o","k","e","n","s"," ","-"," ","B","a","s","e"," ","C","S","S"," ","V","a","r","i","a","b","l","e","s">>,
           <<"/","/"," ","A","u","t","o","m","a","t","i","c","a","l","l","y"," ","g","e","n","e","r","a","t","e","d"," ","f","r","o","m"," ","F","i","g","m","a"," ","t","o","k","e","n","s">>,
           <<"/","/"," ","T","h","e","m","e","-","i","n","d","e","p","e","n","d","e","n","t"," ","t","o","k","e","n","s">>,
           <<>>,
           <<":","r","o","o","t"," ","{">> >>
        \o VariablesBlocks(categories)
        \o << <<"}">> >>
  IN  WriteFile(files, <<"b","a","s","e","/","_","v","a","r","i","a","b","l","e","s",".","s","c","s","s">>, globalFixReferences(content))

\* .replace(/light|dark/gi, "")
RECURSIVE RemoveThemeWords(_)
RemoveThemeWords(s) ==
  IF s = <<>> THEN <<>>
  ELSE IF StartsAt(toLowerCase(s), 1, <<"l","i","g","h","t">>) THEN RemoveThemeWords(slice(s, 5))
  ELSE IF StartsAt(toLowerCase(s), 1, <<"d","a","r","k">>) THEN RemoveThemeWords(slice(s, 4))
  ELSE <<Head(s)>> \o RemoveThemeWords(Tail(s))

\* variable.replace(/(-light|-dark)(?=:)/, ""): the first match only
RECURSIVE RemoveThemeSuffix(_)
RemoveThemeSuffix(variable) ==
  IF variable = <<>> THEN <<>>
  ELSE IF StartsAt(variable, 1, <<"-","l","i","g","h","t",":">>) THEN slice(variable, 6)
  ELSE IF StartsAt(variable, 1, <<"-","d","a","r","k",":">>) THEN slice(variable, 5)
  ELSE <<Head(variable)>> \o RemoveThemeSuffix(Tail(variable))

ThemeCategoryTitle(categoryName) ==
  Capitalize(trim(RemoveThemeWords(categoryName)))

\* the same blocks in a theme file: the title without the theme word, the
\* variable names without the theme suffix
ThemeBlocks(categories) ==
  Flatten([k \in DOMAIN categories |->
    IF Len(categories[k].variables) > 0
    THEN <<<<>>, <<" "," ","/","/"," ">> \o ThemeCategoryTitle(categories[k].key) \o <<" ","t","o","k","e","n","s">>>>
           \o [i \in DOMAIN categories[k].variables |->
                 <<" "," ">> \o RemoveThemeSuffix(categories[k].variables[i])]
    ELSE <<>>])

generateThemeFile(files, themeName, categories) ==
  LET content ==
        << <<"/","/"," ","D","e","s","i","g","n"," ","T","o","k","e","n","s"," ","-"," ">> \o Capitalize(themeName) \o <<" ","T","h","e","m","e">>,
           <<"/","/"," ","A","u","t","o","m","a","t","i","c","a","l","l","y"," ","g","e","n","e","r","a","t","e","d"," ","f","r","o","m"," ","F","i","g","m","a"," ","t","o","k","e","n","s">>,
           <<>>,
           <<"@","i","m","p","o","r","t"," ","'","v","a","r","i","a","b","l","e","s","'",";">>,
           <<>>,
           IF themeName = <<"l","i","g","h","t">> THEN <<":","r","o","o","t"," ","{">> ELSE <<".">> \o themeName \o <<" ","{">> >>
        \o ThemeBlocks(categories)
        \o << <<"}">> >>
  IN  WriteFile(files, <<"b","a","s","e","/","_">> \o themeName \o <<".","s","c","s","s">>,
                globalFixReferences(content))

\* the three buckets of generateBaseFile, each an object keyed by category
\* name, in insertion order
ThemeLight(categories) ==
  SelectSeq(categories, LAMBDA c : includes(toLowerCase(c.key), <<"l","i","g","h","t">>))

ThemeDark(categories) ==
  SelectSeq(categories, LAMBDA c :
    /\ ~includes(toLowerCase(c.key), <<"l","i","g","h","t">>)
    /\ includes(toLowerCase(c.key), <<"d","a","r","k">>))

BaseTokens(categories) ==
  SelectSeq(categories, LAMBDA c :
    /\ ~includes(toLowerCase(c.key), <<"l","i","g","h","t">>)
    /\ ~includes(toLowerCase(c.key), <<"d","a","r","k">>))

generateBaseFile(files, categories) ==
  LET withBase  == generateVariablesFile(files, BaseTokens(categories))
      withLight == IF Len(ThemeLight(categories)) > 0
                   THEN generateThemeFile(withBase, <<"l","i","g","h","t">>, ThemeLight(categories))
                   ELSE withBase
  IN  IF Len(ThemeDark(categories)) > 0
      THEN generateThemeFile(withLight, <<"d","a","r","k">>, ThemeDark(categories))
      ELSE withLight

\* ------------------------------------------------------------------------
\* Utility classes
\* ------------------------------------------------------------------------

\* variable.match(/--([^:]+):/): the 1-based position of the match, 0 when
\* there is none
VariableMatchAt(variable) ==
  LET ok(i) == /\ StartsAt(variable, i, <<"-","-">>)
               /\ i + 2 <= Len(variable)
               /\ variable[i + 2] # ":"
               /\ IndexFrom(variable, <<":">>, i + 3) # 0
  IN  IF \E i \in DOMAIN variable : ok(i)
      THEN CHOOSE i \in DOMAIN variable :
             ok(i) /\ \A j \in 1..(i - 1) : ~ok(j)
      ELSE 0

\* match[1] of that match
VariableName(variable) ==
  LET at == VariableMatchAt(variable)
  IN  SubSeq(variable, at + 2, IndexFrom(variable, <<":">>, at + 3) - 1)

\* className.match(/\d+$/)
EndsInDigits(className) ==
  className # <<>> /\ IsDigit(className[Len(className)])

\* variable.match(/--[^:]*-\d+:/)
MatchesNumberedName(variable) ==
  \E i, k, m \in DOMAIN variable :
    /\ StartsAt(variable, i, <<"-","-">>)
    /\ i + 2 <= k /\ k + 1 < m
    /\ variable[k] = "-"
    /\ variable[m] = ":"
    /\ \A j \in (i + 2)..(k - 1) : variable[j] # ":"
    /\ \A j \in (k + 1)..(m - 1) : IsDigit(variable[j])

hasColorTokens(variables) ==
  \E i \in DOMAIN variables :
    \/ includes(variables[i], <<"c","o","l","o","r">>)
    \/ includes(variables[i], <<"b","a","c","k","g","r","o","u","n","d">>)
    \/ MatchesNumberedName(variables[i])

hasSpacingTokens(variables) ==
  \E i \in DOMAIN variables :
    \/ includes(variables[i], <<"s","p","a","c","i","n","g">>)
    \/ includes(variables[i], <<"p","a","d","d","i","n","g">>)
    \/ includes(variables[i], <<"m","a","r","g","i","n">>)
    \/ includes(variables[i], <<"g","a","p">>)

componentPatterns ==
  { <<"b","a","c","k","g","r","o","u","n","d">>, <<"b","o","r","d","e","r">>, <<"h","o","v","e","r">>, <<"a","c","t","i","v","e">>, <<"f","o","c","u","s">>, <<"d","i","s","a","b","l","e","d">>,
    <<"c","h","e","c","k","e","d">>, <<"s","e","l","e","c","t","e","d">> }

isComponentTokens(variables) ==
  \E i \in DOMAIN variables :
    \E pattern \in componentPatterns : includes(variables[i], pattern)

RECURSIVE generateColorUtilities(_)
generateColorUtilities(variables) ==
  IF variables = <<>> THEN <<>>
  ELSE LET className == VariableName(Head(variables))
       IN  (IF /\ VariableMatchAt(Head(variables)) # 0
               /\ \/ includes(className, <<"c","o","l","o","r">>)
                  \/ includes(className, <<"b","a","c","k","g","r","o","u","n","d">>)
                  \/ EndsInDigits(className)
            THEN << <<".","t","e","x","t","-">> \o className \o <<" ","{"," ","c","o","l","o","r",":"," ","v","a","r","(","-","-">> \o className \o <<")",";"," ","}">>,
                    <<".","b","g","-">> \o className \o <<" ","{"," ","b","a","c","k","g","r","o","u","n","d","-","c","o","l","o","r",":"," ","v","a","r","(","-","-">> \o className \o <<")",";"," ","}">>,
                    <<".","b","o","r","d","e","r","-">> \o className \o <<" ","{"," ","b","o","r","d","e","r","-","c","o","l","o","r",":"," ","v","a","r","(","-","-">> \o className \o <<")",";"," ","}">> >>
            ELSE <<>>)
           \o generateColorUtilities(Tail(variables))

RECURSIVE generateSpacingUtilities(_)
generateSpacingUtilities(variables) ==
  IF variables = <<>> THEN <<>>
  ELSE LET className == VariableName(Head(variables))
       IN  (IF /\ VariableMatchAt(Head(variables)) # 0
               /\ \/ includes(className, <<"s","p","a","c","i","n","g">>)
                  \/ includes(className, <<"p","a","d","d","i","n","g">>)
                  \/ includes(className, <<"m","a","r","g","i","n">>)
            THEN << <<".","m","-">> \o className \o <<" ","{"," ","m","a","r","g","i","n",":"," ","v","a","r","(","-","-">> \o className \o <<")",";"," ","}">>,
                    <<".","p","-">> \o className \o <<" ","{"," ","p","a","d","d","i","n","g",":"," ","v","a","r","(","-","-">> \o className \o <<")",";"," ","}">> >>
            ELSE <<>>)
           \o generateSpacingUtilities(Tail(variables))

\* the CSS property of a token name; the empty string stands for null
mapTokenToProperty(tokenName) ==
  IF includes(tokenName, <<"b","a","c","k","g","r","o","u","n","d">>) THEN <<"b","a","c","k","g","r","o","u","n","d">>
  ELSE IF includes(tokenName, <<"c","o","l","o","r">>) /\ ~includes(tokenName, <<"b","a","c","k","g","r","o","u","n","d">>)
       THEN <<"c","o","l","o","r">>
  ELSE IF includes(tokenName, <<"b","o","r","d","e","r","-","c","o","l","o","r">>) THEN <<"b","o","r","d","e","r","-","c","o","l","o","r">>
  ELSE IF includes(tokenName, <<"b","o","r","d","e","r","-","r","a","d","i","u","s">>) THEN <<"b","o","r","d","e","r","-","r","a","d","i","u","s">>
  ELSE IF includes(tokenName, <<"p","a","d","d","i","n","g">>) THEN <<"p","a","d","d","i","n","g">>
  ELSE IF includes(tokenName, <<"m","a","r","g","i","n">>) THEN <<"m","a","r","g","i","n">>
  ELSE IF includes(tokenName, <<"f","o","n","t","-","s","i","z","e">>) THEN <<"f","o","n","t","-","s","i","z","e">>
  ELSE IF includes(tokenName, <<"f","o","n","t","-","w","e","i","g","h","t">>) THEN <<"f","o","n","t","-","w","e","i","g","h","t">>
  ELSE IF includes(tokenName, <<"l","i","n","e","-","h","e","i","g","h","t">>) THEN <<"l","i","n","e","-","h","e","i","g","h","t">>
  ELSE <<>>

\* categoryData.base and categoryData[state]: categoryData is the array of
\* the variables (generateBasicUtilities passes it), and an array has no
\* property of such a name, so the read yields undefined
NamedProperty(categoryData, name) ==
  [defined |-> FALSE, items |-> <<>>]

\* p || []
OrEmpty(p) ==
  IF p.defined THEN p.items ELSE <<>>

\* the "  <property>: var(--<tokenName>);" lines of a rule; state is the
\* empty string for the base rule
RECURSIVE RuleLines(_, _)
RuleLines(vars, state) ==
  IF vars = <<>> THEN <<>>
  ELSE LET tokenName == VariableName(Head(vars))
           baseToken == IF state = <<>> THEN tokenName
                        ELSE replaceFirst(tokenName, <<"-">> \o state, <<>>)
           property  == mapTokenToProperty(baseToken)
       IN  (IF VariableMatchAt(Head(vars)) # 0 /\ property # <<>>
            THEN << <<" "," ">> \o property \o <<":"," ","v","a","r","(","-","-">> \o tokenName \o <<")",";">> >>
            ELSE <<>>)
           \o RuleLines(Tail(vars), state)

states ==
  << <<"h","o","v","e","r">>, <<"a","c","t","i","v","e">>, <<"f","o","c","u","s">>, <<"d","i","s","a","b","l","e","d">>, <<"c","h","e","c","k","e","d">>, <<"s","e","l","e","c","t","e","d">> >>

RECURSIVE StateRules(_, _, _)
StateRules(categoryName, categoryData, k) ==
  IF k > Len(states) THEN <<>>
  ELSE LET stateVars == OrEmpty(NamedProperty(categoryData, states[k]))
       IN  (IF Len(stateVars) = 0 THEN <<>>
            ELSE << <<".">> \o categoryName \o <<":">> \o states[k] \o <<" ","{">> >>
                   \o RuleLines(stateVars, states[k])
                   \o << <<"}">>, <<>> >>)
           \o StateRules(categoryName, categoryData, k + 1)

generateComponentUtilities(categoryName, categoryData) ==
  << <<"/","/"," ">> \o categoryName \o <<" ","c","o","m","p","o","n","e","n","t"," ","u","t","i","l","i","t","i","e","s">>,
     <<".">> \o categoryName \o <<" ","{">>,
     <<" "," ","/","/"," ","B","a","s","e"," ","s","t","y","l","e","s"," ","u","s","i","n","g"," ","t","o","k","e","n","s">> >>
    \o RuleLines(OrEmpty(NamedProperty(categoryData, <<"b","a","s","e">>)), <<>>)
    \o << <<"}">>, <<>> >>
    \o StateRules(categoryName, categoryData, 1)

\* mixin.match(/@mixin ([^{]+)/)[1].trim(), read off the first line of the
\* mixin, which is "@mixin <tokenName> {"
MixinName(mixin) ==
  trim(SubSeq(mixin[1], Len(<<"@","m","i","x","i","n"," ">>) + 1, IndexFrom(mixin[1], <<"{">>, 1) - 1))

generateBasicUtilities(categoryName, variables, mixins) ==
  LET utilities ==
        [i \in DOMAIN mixins |->
           <<".">> \o MixinName(mixins[i]) \o <<" ","{"," ","@","i","n","c","l","u","d","e"," ">>
               \o MixinName(mixins[i]) \o <<";"," ","}">>]
        \o (IF includes(categoryName, <<"c","o","l","o","r">>) \/ hasColorTokens(variables)
            THEN generateColorUtilities(variables) ELSE <<>>)
        \o (IF includes(categoryName, <<"s","p","a","c","i","n","g">>) \/ hasSpacingTokens(variables)
            THEN generateSpacingUtilities(variables) ELSE <<>>)
        \o (IF isComponentTokens(variables)
            THEN generateComponentUtilities(categoryName, variables) ELSE <<>>)
  IN  IF utilities # <<>> THEN utilities
      ELSE << <<"/","/"," ","N","o"," ","u","t","i","l","i","t","i","e","s"," ","g","e","n","e","r","a","t","e","d"," ","f","o","r"," ">> \o categoryName >>

\* the import of "the relevant theme file"
ThemeImport_DarkFirst(categoryName) ==
  IF includes(toLowerCase(categoryName), <<"d","a","r","k">>)
  THEN << <<"@","i","m","p","o","r","t"," ","'",".",".","/","b","a","s","e","/","d","a","r","k","'",";">>, <<>> >>
  ELSE IF includes(toLowerCase(categoryName), <<"l","i","g","h","t">>)
  THEN << <<"@","i","m","p","o","r","t"," ","'",".",".","/","b","a","s","e","/","l","i","g","h","t","'",";">>, <<>> >>
  ELSE <<>>

ThemeImport(categoryName) ==
  IF includes(toLowerCase(categoryName), <<"l","i","g","h","t">>)
  THEN << <<"@","i","m","p","o","r","t"," ","'",".",".","/","b","a","s","e","/","l","i","g","h","t","'",";">>, <<>> >>
  ELSE IF includes(toLowerCase(categoryName), <<"d","a","r","k">>)
  THEN << <<"@","i","m","p","o","r","t"," ","'",".",".","/","b","a","s","e","/","d","a","r","k","'",";">>, <<>> >>
  ELSE <<>>

ComponentPath(categoryName) ==
  <<"c","o","m","p","o","n","e","n","t","s","/","_">> \o SafeCategoryName(categoryName) \o <<".","s","c","s","s">>

generateCategoryFile(files, categoryName, variables, mixins) ==
  LET content ==
        << <<"/","/"," ">> \o Capitalize(categoryName) \o <<" ","T","o","k","e","n","s">>,
           <<"/","/"," ","A","u","t","o","m","a","t","i","c","a","l","l","y"," ","g","e","n","e","r","a","t","e","d"," ","f","r","o","m"," ","F","i","g","m","a"," ","t","o","k","e","n","s">>,
           <<>>,
           <<"@","i","m","p","o","r","t"," ","'",".",".","/","b","a","s","e","/","v","a","r","i","a","b","l","e","s","'",";">>,
           <<>> >>
        \o ThemeImport(categoryName)
        \o (IF Len(mixins) > 0
            THEN << <<"/","/"," ","M","i","x","i","n","s">> >>
                   \o Flatten([i \in DOMAIN mixins |-> mixins[i] \o << <<>> >>])
            ELSE <<>>)
        \o << <<"/","/"," ","U","t","i","l","i","t","y"," ","C","l","a","s","s","e","s">> >>
        \o generateBasicUtilities(categoryName, variables, mixins)
  IN  WriteFile(files, ComponentPath(categoryName), content)

generateIndexFile(files, categories) ==
  LET content ==
        << <<"/","/"," ","D","e","s","i","g","n"," ","T","o","k","e","n","s"," ","-"," ","M","a","i","n"," ","I","n","d","e","x">>,
           <<"/","/"," ","A","u","t","o","m","a","t","i","c","a","l","l","y"," ","g","e","n","e","r","a","t","e","d"," ","f","r","o","m"," ","F","i","g","m","a"," ","t","o","k","e","n","s">>,
           <<>>,
           <<"/","/"," ","B","a","s","e"," ","f","i","l","e","s">>,
           <<"@","i","m","p","o","r","t"," ","'","b","a","s","e","/","v","a","r","i","a","b","l","e","s","'",";">>,
           <<"@","i","m","p","o","r","t"," ","'","b","a","s","e","/","l","i","g","h","t","'",";">>,
           <<"@","i","m","p","o","r","t"," ","'","b","a","s","e","/","d","a","r","k","'",";">>,
           <<>>,
           <<"/","/"," ","C","o","m","p","o","n","e","n","t"," ","f","i","l","e","s">> >>
        \o [i \in DOMAIN categories |->
              <<"@","i","m","p","o","r","t"," ","'","c","o","m","p","o","n","e","n","t","s","/">> \o SafeCategoryName(categories[i]) \o <<"'",";">>]
        \o << <<>>,
              <<"/","/"," ","T","h","e","m","e"," ","U","s","a","g","e",":">>,
              <<"/","/"," ","A","d","d"," ","c","l","a","s","s","=","\"","d","a","r","k","\""," ","t","o"," ","y","o","u","r"," ","<","h","t","m","l",">"," ","o","r"," ","<","b","o","d","y",">"," ","e","l","e","m","e","n","t"," ","f","o","r"," ","d","a","r","k"," ","t","h","e","m","e">>,
              <<"/","/"," ","L","i","g","h","t"," ","t","h","e","m","e"," ","i","s"," ","t","h","e"," ","d","e","f","a","u","l","t"," ","(","a","p","p","l","i","e","s"," ","t","o"," ",":","r","o","o","t",")">>,
              <<"/","/"," ","E","x","a","m","p","l","e",":"," ","<","b","o","d","y"," ","c","l","a","s","s","=","\"","d","a","r","k","\"",">">>,
              <<"/","/"," ">>,
              <<"/","/"," ","F","o","r"," ","T","a","i","l","w","i","n","d"," ","C","S","S"," ","c","o","m","p","a","t","i","b","i","l","i","t","y",":">>,
              <<"/","/"," ","T","h","i","s"," ","w","o","r","k","s"," ","s","e","a","m","l","e","s","s","l","y"," ","w","i","t","h"," ","T","a","i","l","w","i","n","d","'","s"," ","d","a","r","k"," ","m","o","d","e"," ","c","l","a","s","s"," ","s","t","r","a","t","e","g","y">> >>
  IN  WriteFile(files, <<"i","n","d","e","x",".","s","c","s","s">>, content)

\* ------------------------------------------------------------------------
\* The state of a FigmaTokenParser and of one generateSCSS run
\* ------------------------------------------------------------------------

VARIABLES
  tokens,      \* this.tokens: the parsed token document
  pc,          \* where the parser is
  idx,         \* the position of the running loop of generateSCSS
  categories,  \* the categories object of generateSCSS
  files,       \* the files written below outputDir
  nIn, nOut,   \* an argument of normalizeTokenName and the results so far
  rIn, rOut    \* the arguments of processStringReferences and its result

vars ==
  <<tokens, pc, idx, categories, files, nIn, nOut, rIn, rOut>>

pureVars ==
  <<nIn, nOut, rIn, rOut>>

parserVars ==
  <<tokens, pc, idx, categories, files>>

\* ------------------------------------------------------------------------
\* The token documents the parser is run on
\* ------------------------------------------------------------------------

\* a leaf token in the type/value spelling and in the $type/$value spelling
Token(type, value) ==
  Obj(<< <<<<"t","y","p","e">>, Str(type)>>, <<<<"v","a","l","u","e">>, value>> >>)

DollarToken(type, value) ==
  Obj(<< <<<<"$","t","y","p","e">>, Str(type)>>, <<<<"$","v","a","l","u","e">>, value>> >>)

\* a group with one member
Group(key, node) ==
  Obj(<< <<key, node>> >>)

\* the largest number of a dimension token
MaxDimension == 11

\* the largest number of categories of a document with several categories
MaxCategories == 2

DimensionTrees ==
  UNION { { Group(<<"s","m">>, DollarToken(<<"d","i","m","e","n","s","i","o","n">>, Num(n))),
            Group(<<"s","m">>, Token(<<"s","p","a","c","i","n","g">>, Num(n))) } : n \in 0..MaxDimension }

ValueTrees ==
  { Group(<<"p","r","i","m","a","r","y">>, Token(<<"c","o","l","o","r">>, Str(<<"#","f","f","f">>))),
    Group(<<"r","a","d","i","u","s">>, Token(<<"b","o","r","d","e","r","R","a","d","i","u","s">>, Num(4))),
    Group(<<"w","e","i","g","h","t">>, Token(<<"o","t","h","e","r">>, Num(5))),
    Group(<<"o","f","f">>, Token(<<"o","t","h","e","r">>, Bool(FALSE))),
    Group(<<"o","n">>, DollarToken(<<"o","t","h","e","r">>, Bool(FALSE))),
    Group(<<"e","m","p","t","y">>, Token(<<"o","t","h","e","r">>, Str(<<>>))),
    Group(<<"b","l","a","n","k">>, DollarToken(<<"o","t","h","e","r">>, Str(<<>>))),
    Group(<<"m","i","s","s","i","n","g">>, Token(<<"c","o","l","o","r">>, Null)),
    Group(<<"a","b","s","e","n","t">>, Obj(<< <<<<"t","y","p","e">>, Str(<<"c","o","l","o","r">>)>> >>)),
    Group(<<"r","e","f">>, Token(<<"c","o","l","o","r">>, Str(<<"{","a",".","b","}">>))),
    Group(<<"s","u","m">>, Token(<<"o","t","h","e","r">>, Str(<<"{","s","p","a","c","i","n","g",".","s","m","}"," ","+"," ","4">>))),
    Group(<<"m","i","x","e","d">>, Token(<<"c","o","l","o","r">>, Str(<<"v","a","r","(","-","-","x",")"," ","{","a",".","b","}">>))),
    Group(<<"l","i","n","e">>, Token(<<"b","o","r","d","e","r">>,
      Obj(<< <<<<"w","i","d","t","h">>, Num(2)>>, <<<<"c","o","l","o","r">>, Str(<<"{","a",".","b","}">>)>> >>))),
    Group(<<"h","1">>, Token(<<"t","y","p","o","g","r","a","p","h","y">>,
      Obj(<< <<<<"f","o","n","t","F","a","m","i","l","y">>, Str(<<"{","a",".","b","}">>)>>, <<<<"f","o","n","t","S","i","z","e">>, Num(16)>> >>))),
    Group(<<"h","2">>, Token(<<"t","y","p","o","g","r","a","p","h","y">>,
      Obj(<< <<<<"f","o","n","t","F","a","m","i","l","y">>, Str(<<"A","r","i","a","l">>)>>, <<<<"f","o","n","t","S","i","z","e">>, Num(16)>>,
             <<<<"f","o","n","t","W","e","i","g","h","t">>, Num(700)>>, <<<<"l","i","n","e","H","e","i","g","h","t">>, Num(2)>>,
             <<<<"l","e","t","t","e","r","S","p","a","c","i","n","g">>, Num(2)>> >>))),
    Group(<<"h","3">>, Token(<<"t","y","p","o","g","r","a","p","h","y">>, Obj(<< <<<<"v","a","l","u","e">>, Null>> >>))),
    Group(<<"s","h","a","d","o","w">>, Token(<<"b","o","x","S","h","a","d","o","w">>,
      Obj(<< <<<<"x">>, Num(1)>>, <<<<"y">>, Num(2)>>,
             <<<<"t","y","p","e">>, Str(<<"i","n","n","e","r","S","h","a","d","o","w">>)>> >>))),
    Group(<<"s","h","a","d","o","w","s">>, Token(<<"b","o","x","S","h","a","d","o","w">>,
      Arr(<< Obj(<< <<<<"x">>, Num(1)>>, <<<<"y">>, Num(2)>> >>), Num(3) >>))),
    Group(<<"g","l","o","w">>, Token(<<"b","o","x","S","h","a","d","o","w">>,
      Arr(<< Obj(<< <<<<"x">>, Num(1)>>, <<<<"y">>, Num(2)>> >>), Null >>))),
    Group(<<"r","a","w">>, Token(<<"o","t","h","e","r">>, Obj(<< <<<<"a">>, Str(<<"b">>)>> >>))),
    Group(<<"b","a","r","e">>, Token(<<"o","t","h","e","r">>, Obj(<<>>))),
    Group(<<"l","i","s","t">>, Token(<<"o","t","h","e","r">>, Arr(<< Num(1), Num(2) >>))),
    Group(<<"c","o","l","o","r","-","l","i","g","h","t">>, Token(<<"c","o","l","o","r">>, Str(<<"#","f","f","f">>))),
    Group(<<"c","o","l","o","r","D","a","r","k">>, DollarToken(<<"c","o","l","o","r">>, Str(<<"#","0","0","0">>))),
    Group(<<"b","a","c","k","g","r","o","u","n","d","-","h","o","v","e","r">>, Token(<<"c","o","l","o","r">>, Str(<<"#","e","e","e">>))),
    Group(<<"b","a","c","k","g","r","o","u","n","d","H","o","v","e","r">>, Token(<<"c","o","l","o","r">>, Str(<<"#","e","e","e">>))),
    Obj(<< <<<<"b","a","c","k","g","r","o","u","n","d">>, Token(<<"c","o","l","o","r">>, Str(<<"#","d","d","d">>))>>,
           <<<<"b","a","c","k","g","r","o","u","n","d","-","h","o","v","e","r">>, Token(<<"c","o","l","o","r">>, Str(<<"#","e","e","e">>))>>,
           <<<<"p","a","d","d","i","n","g","-","f","o","c","u","s">>, DollarToken(<<"s","p","a","c","i","n","g">>, Num(4))>> >>),
    Obj(<< <<<<"$","d","e","s","c","r","i","p","t","i","o","n">>, Str(<<"b","r","a","n","d">>)>>,
           <<<<"B","r","a","n","d"," ","M","a","i","n">>, Group(<<"g","r","a","y","1","0","0">>, Token(<<"c","o","l","o","r">>, Str(<<"#","e","e","e">>)))>>,
           <<<<"g","a","p">>, Num(4)>> >>),
    Obj(<< <<<<"m","i","s","s","i","n","g">>, Token(<<"c","o","l","o","r">>, Null)>>,
           <<<<"z","e","r","o">>, DollarToken(<<"d","i","m","e","n","s","i","o","n">>, Num(0))>> >>),
    Obj(<<>>),
    Arr(<< Token(<<"c","o","l","o","r">>, Str(<<"#","f","f","f">>)) >>),
    Str(<<"a","b">>),
    Num(1),
    Null }

Trees ==
  DimensionTrees \cup ValueTrees

CategoryNames ==
  { <<"c","o","l","o","r">>, <<"C","o","l","o","r"," ","L","i","g","h","t">>, <<"d","a","r","k">>, <<"D","a","r","k","/","L","i","g","h","t">>, <<"b","u","t","t","o","n">>, <<"s","p","a","c","i","n","g">>,
    <<"$","t","h","e","m","e","s">>, <<"_","m","e","t","a">> }

\* the documents of one category
Singles ==
  { Obj(<< <<name, tree>> >>) : name \in CategoryNames, tree \in Trees }

\* the categories that documents of several categories are made of
PoolNames ==
  << <<"c","o","l","o","r">>, <<"C","o","l","o","r">>, <<"l","i","g","h","t">>, <<"C","o","l","o","r"," ","L","i","g","h","t">>, <<"d","a","r","k">>, <<"$","t","h","e","m","e","s">> >>

PoolTrees ==
  << Group(<<"p","r","i","m","a","r","y">>, Token(<<"c","o","l","o","r">>, Str(<<"#","f","f","f">>))),
     Group(<<"m","i","s","s","i","n","g">>, Token(<<"c","o","l","o","r">>, Null)),
     Group(<<"c","o","l","o","r","-","d","a","r","k">>, Token(<<"c","o","l","o","r">>, Str(<<"{","a",".","b","}">>))) >>

\* a document of n categories: category k has the k-th of the names chosen
\* by names (an increasing choice, so no name is repeated) and the tree
\* chosen by trees
Several ==
  UNION { { Obj([k \in 1..n |-> <<PoolNames[names[k]], PoolTrees[trees[k]]>>]) :
              names \in { f \in [1..n -> DOMAIN PoolNames] :
                            \A a, b \in 1..n : a < b => f[a] < f[b] },
              trees \in [1..n -> DOMAIN PoolTrees] } :
          n \in 2..MaxCategories }

Documents ==
  Singles \cup Several

\* the arguments of normalizeTokenName: the strings of at most MaxLen
\* characters, over a letter of each case, a digit, the hyphen, a blank and
\* a character that is none of these
MaxLen == 4

NameAlphabet ==
  { "a", "B", "1", "-", " ", "_" }

NameInputs ==
  UNION { [1..n -> NameAlphabet] : n \in 0..MaxLen }

\* the arguments of processStringReferences: at most MaxPieces of these
\* pieces, one after the other
MaxPieces == 3

RefPieces ==
  { <<"{","a",".","b","}">>, <<"{","s","p","a","c","i","n","g",".","s","m","}">>, <<"{","F","o","n","t"," ","S","i","z","e",".","h","1","}">>, <<" ","+"," ","4">>, <<"4","p","x">>, <<"c","a","l","c","(">> }

RefInputs ==
  UNION { { Flatten(p) : p \in [1..n -> RefPieces] } : n \in 0..MaxPieces }

RefTypes ==
  { Null, Str(<<"d","i","m","e","n","s","i","o","n">>) }

\* ------------------------------------------------------------------------
\* The parser: the constructor, loadTokens and the steps of generateSCSS
\* ------------------------------------------------------------------------

PureIdle ==
  /\ nIn = <<>>
  /\ nOut = <<>>
  /\ rIn = [str |-> <<>>, type |-> Null]
  /\ rOut = [done |-> FALSE, s |-> <<>>]

ParserIdle ==
  /\ tokens = Obj(<<>>)
  /\ pc = "constructed"
  /\ idx = 0
  /\ categories = <<>>
  /\ files = {}

\* constructor(tokenSource, outputDir): this.tokens = {}
Init ==
  /\ ParserIdle
  /\ PureIdle

\* loadTokens: this.tokens = JSON.parse(data), then generateSCSS starts with
\* const categories = {}
LoadTokens ==
  /\ pc = "constructed"
  /\ \E doc \in Documents : tokens' = doc
  /\ pc' = "flatten"
  /\ idx' = 1
  /\ categories' = <<>>
  /\ UNCHANGED <<files, pureVars>>

\* one iteration of the first loop of generateSCSS
FlattenCategory ==
  /\ pc = "flatten"
  /\ idx <= Len(Entries(tokens))
  /\ IF \/ startsWith(Entries(tokens)[idx][1], <<"$">>)
        \/ startsWith(Entries(tokens)[idx][1], <<"_">>)
     THEN /\ categories' = categories
          /\ pc' = "flatten"
     ELSE \E flat \in { flattenTokens(Entries(tokens)[idx][2],
                                       Entries(tokens)[idx][1],
                                       categories, <<>>) } :
            /\ categories' = flat.categories
            /\ pc' = IF flat.threw THEN "threw" ELSE "flatten"
  /\ idx' = idx + 1
  /\ UNCHANGED <<tokens, files, pureVars>>

\* this.generateBaseFile(categories)
GenerateBaseFile ==
  /\ pc = "flatten"
  /\ idx > Len(Entries(tokens))
  /\ files' = generateBaseFile(files, categories)
  /\ pc' = "category"
  /\ idx' = 1
  /\ UNCHANGED <<tokens, categories, pureVars>>

\* one iteration of the second loop of generateSCSS
GenerateCategoryFile ==
  /\ pc = "category"
  /\ idx <= Len(categories)
  /\ files' = generateCategoryFile(files, categories[idx].key,
                                   categories[idx].variables,
                                   categories[idx].mixins)
  /\ idx' = idx + 1
  /\ UNCHANGED <<tokens, pc, categories, pureVars>>

\* this.generateIndexFile(Object.keys(categories))
GenerateIndexFile ==
  /\ pc = "category"
  /\ idx > Len(categories)
  /\ files' = generateIndexFile(files, [i \in DOMAIN categories |-> categories[i].key])
  /\ pc' = "done"
  /\ UNCHANGED <<tokens, idx, categories, pureVars>>

Next ==
  \/ LoadTokens
  \/ FlattenCategory
  \/ GenerateBaseFile
  \/ GenerateCategoryFile
  \/ GenerateIndexFile

Spec ==
  Init /\ [][Next]_vars

\* ------------------------------------------------------------------------
\* normalizeTokenName applied to a name, and again to its result
\* ------------------------------------------------------------------------

InitNormalize ==
  /\ ParserIdle
  /\ nIn \in NameInputs
  /\ nOut = <<>>
  /\ rIn = [str |-> <<>>, type |-> Null]
  /\ rOut = [done |-> FALSE, s |-> <<>>]

ApplyNormalize ==
  /\ Len(nOut) < 2
  /\ nOut' = Append(nOut, normalizeTokenName(IF nOut = <<>> THEN nIn
                                              ELSE nOut[Len(nOut)]))
  /\ UNCHANGED <<parserVars, nIn, rIn, rOut>>

NextNormalize ==
  ApplyNormalize

SpecNormalize ==
  InitNormalize /\ [][NextNormalize]_vars

\* ------------------------------------------------------------------------
\* processStringReferences applied to a string
\* ------------------------------------------------------------------------

InitReferences ==
  /\ ParserIdle
  /\ nIn = <<>>
  /\ nOut = <<>>
  /\ rIn \in [str : RefInputs, type : RefTypes]
  /\ rOut = [done |-> FALSE, s |-> <<>>]

ApplyReferences ==
  /\ ~rOut.done
  /\ rOut' = [done |-> TRUE, s |-> processStringReferences(rIn.str, rIn.type)]
  /\ UNCHANGED <<parserVars, nIn, nOut, rIn>>

NextReferences ==
  ApplyReferences

SpecReferences ==
  InitReferences /\ [][NextReferences]_vars

\* ------------------------------------------------------------------------
\* What the claims speak of
\* ------------------------------------------------------------------------

\* the content of the file written at path; the empty text when no such
\* file was written
FileExists(path) ==
  \E f \in files : f.path = path

FileContent(path) ==
  IF FileExists(path)
  THEN (CHOOSE f \in files : f.path = path).content
  ELSE <<>>

\* the first loop of generateSCSS has ended without a throw
Flattened ==
  pc \in {"category", "done"}

\* a character of a reference path
IsPathChar(c) ==
  IsLower(c) \/ IsUpper(c) \/ IsDigit(c) \/ c \in {".", "-", "_", " "}

\* the line holds an unresolved placeholder {path}
HasPlaceholder(line) ==
  \E i, j \in DOMAIN line :
    /\ i + 1 < j
    /\ line[i] = "{"
    /\ line[j] = "}"
    /\ \A k \in (i + 1)..(j - 1) : IsPathChar(line[k])

\* the names declared by the lines "  --name: value;" of a text
DeclaredNames(content) ==
  { VariableName(trim(content[i])) :
      i \in { k \in DOMAIN content : startsWith(trim(content[k]), <<"-","-">>) } }

\* the names of the var(--name) calls of a line
UsedNamesOfLine(line) ==
  { SubSeq(line, i + 6, IndexFrom(line, <<")">>, i + 6) - 1) :
      i \in { k \in DOMAIN line : StartsAt(line, k, <<"v","a","r","(","-","-">>) } }

\* the names used by the utility classes of a component document: the
\* var(--name) calls below its "// Utility Classes" line
UsedNames(content) ==
  UNION { UsedNamesOfLine(content[i]) :
            i \in { k \in DOMAIN content :
                      \E h \in 1..(k - 1) : content[h] = <<"/","/"," ","U","t","i","l","i","t","y"," ","C","l","a","s","s","e","s">> } }

\* the theme document a component document imports, by its @import lines
ImportedThemePath(content) ==
  IF \E i \in DOMAIN content : content[i] = <<"@","i","m","p","o","r","t"," ","'",".",".","/","b","a","s","e","/","l","i","g","h","t","'",";">>
  THEN <<"b","a","s","e","/","_","l","i","g","h","t",".","s","c","s","s">>
  ELSE IF \E i \in DOMAIN content : content[i] = <<"@","i","m","p","o","r","t"," ","'",".",".","/","b","a","s","e","/","d","a","r","k","'",";">>
  THEN <<"b","a","s","e","/","_","d","a","r","k",".","s","c","s","s">>
  ELSE <<"b","a","s","e","/","_","v","a","r","i","a","b","l","e","s",".","s","c","s","s">>

\* the leaf tokens below a node, each with its path: the nodes that carry a
\* type, reached through the groups, the keys that are empty or begin with
\* "$" left out
RECURSIVE LeavesOf(_, _)
RECURSIVE LeavesOfEntry(_, _, _)

LeavesOfEntry(key, value, prefix) ==
  IF key = <<>> \/ startsWith(key, <<"$">>) THEN {}
  ELSE IF IsObject(value) /\ Truthy(TokenType(value))
  THEN { [path |-> CurrentPath(prefix, key), node |-> value] }
  ELSE IF value.t = "object"
  THEN LeavesOf(value, CurrentPath(prefix, key))
  ELSE {}

LeavesOf(node, prefix) ==
  IF IsNullish(node) THEN {}
  ELSE UNION { LeavesOfEntry(Entries(node)[i][1], Entries(node)[i][2], prefix) :
                 i \in DOMAIN Entries(node) }

\* the leaf tokens of the document that flattenTokens is run on, each with
\* its category key
AllLeaves ==
  UNION { { [category |-> SafeCategoryName(tokens.e[i][1]),
             path |-> leaf.path, node |-> leaf.node] :
              leaf \in LeavesOf(tokens.e[i][2], <<>>) } :
          i \in { k \in DOMAIN tokens.e :
                    /\ ~startsWith(tokens.e[k][1], <<"$">>)
                    /\ ~startsWith(tokens.e[k][1], <<"_">>) } }

\* the value a leaf token carries: its $value, or its value when it has no
\* $value
LeafValue(node) ==
  IF ~IsUndefined(Get(node, <<"$","v","a","l","u","e">>)) THEN Get(node, <<"$","v","a","l","u","e">>)
  ELSE Get(node, <<"v","a","l","u","e">>)

\* the variable declarations stored for the category
VariablesOf(category) ==
  IF HasCategory(categories, category)
  THEN Range(categories[CategoryIndex(categories, category)].variables)
  ELSE {}

\* the declarations stored for the leaf at path in category: "--path: ...",
\* and "--path-<property>: ..." for a typography token
DeclarationsOf(category, path, node) ==
  { line \in VariablesOf(category) :
      \/ startsWith(line, <<"-","-">> \o path \o <<":">>)
      \/ /\ IsString(TokenType(node), <<"t","y","p","o","g","r","a","p","h","y">>)
         /\ startsWith(line, <<"-","-">> \o path \o <<"-">>) }

\* ------------------------------------------------------------------------
\* The claims
\* ------------------------------------------------------------------------

\* C1: after generateSCSS no emitted document (base variables, theme,
\* component) holds an unresolved {path} placeholder.
C1_NoUnresolvedPlaceholder ==
  pc = "done" =>
    \A f \in files :
      f.path # <<"i","n","d","e","x",".","s","c","s","s">> =>
        \A i \in DOMAIN f.content : ~HasPlaceholder(f.content[i])

\* C2: every custom property that the utility classes of a component
\* document use is declared, under that very name, in the base variables
\* document or in the theme document the component document imports.
C2_UsedNamesAreDeclared ==
  pc = "done" =>
    \A i \in DOMAIN categories :
      LET content == FileContent(ComponentPath(categories[i].key))
      IN  UsedNames(content) \subseteq
            (DeclaredNames(FileContent(<<"b","a","s","e","/","_","v","a","r","i","a","b","l","e","s",".","s","c","s","s">>))
               \cup DeclaredNames(FileContent(ImportedThemePath(content))))

\* C3: the transformation never ends in an error: no token document makes
\* flattenTokens or convertValue throw.
C3_NeverThrows ==
  pc # "threw"

\* C4: a theme document is written if and only if a category of its bucket
\* holds at least one variable declaration.
C4_ThemeFileIffDeclarations ==
  pc = "done" =>
    /\ FileExists(<<"b","a","s","e","/","_","l","i","g","h","t",".","s","c","s","s">>) <=>
         \E i \in DOMAIN categories :
           /\ includes(toLowerCase(categories[i].key), <<"l","i","g","h","t">>)
           /\ Len(categories[i].variables) > 0
    /\ FileExists(<<"b","a","s","e","/","_","d","a","r","k",".","s","c","s","s">>) <=>
         \E i \in DOMAIN categories :
           /\ ~includes(toLowerCase(categories[i].key), <<"l","i","g","h","t">>)
           /\ includes(toLowerCase(categories[i].key), <<"d","a","r","k">>)
           /\ Len(categories[i].variables) > 0

\* C5: a leaf token gets no declaration exactly when its value is null or
\* undefined (so a leaf whose value is 0, false or "" gets one), and a
\* dimension, spacing or borderRadius leaf with the number n at path p gets
\* "--p: <n>px;".
C5_DeclarationUnlessNullish ==
  Flattened =>
    \A leaf \in AllLeaves :
      /\ IsNullish(LeafValue(leaf.node))
           <=> DeclarationsOf(leaf.category, leaf.path, leaf.node) = {}
      /\ ( /\ LeafValue(leaf.node).t = "number"
           /\ \/ IsString(TokenType(leaf.node), <<"d","i","m","e","n","s","i","o","n">>)
              \/ IsString(TokenType(leaf.node), <<"s","p","a","c","i","n","g">>)
              \/ IsString(TokenType(leaf.node), <<"b","o","r","d","e","r","R","a","d","i","u","s">>) )
           => (<<"-","-">> \o leaf.path \o <<":"," ">> \o NumToStr(LeafValue(leaf.node).n) \o <<"p","x",";">>)
                \in VariablesOf(leaf.category)

\* C6: normalizeTokenName is idempotent: applied to its own result it
\* returns that result.
C6_NormalizeIdempotent ==
  Len(nOut) = 2 => nOut[2] = nOut[1]

\* a name that normalization changes, to a name that is not empty, has been
\* normalized twice
C6_Witness ==
  /\ Len(nOut) = 2
  /\ nOut[1] # nIn
  /\ nOut[1] # <<>>
  /\ \E i \in DOMAIN nIn : IsUpper(nIn[i])
  /\ \E i \in DOMAIN nIn : ~IsPathChar(nIn[i]) \/ nIn[i] = "_"

\* the name holds one of the state suffixes
HasStateSuffix(name) ==
  \E k \in DOMAIN states : includes(name, <<"-">> \o states[k])

\* C7: for a variable with a state suffix whose base name maps to a CSS
\* property, the component document holds the rule ".<category>:<state> {"
\* with the line "  <property>: var(--<variable>);", and the base rule holds
\* such a line for each recognized variable without a state suffix.
C7_StateRulesEmitted ==
  pc = "done" =>
    \A i \in DOMAIN categories :
      LET content == Range(FileContent(ComponentPath(categories[i].key)))
          names   == { VariableName(v) : v \in Range(categories[i].variables) }
      IN  (\E n \in names : HasStateSuffix(n)) =>
            /\ \A n \in names : \A k \in DOMAIN states :
                 ( /\ includes(n, <<"-">> \o states[k])
                   /\ mapTokenToProperty(replaceFirst(n, <<"-">> \o states[k], <<>>)) # <<>> )
                 => /\ (<<".">> \o categories[i].key \o <<":">> \o states[k] \o <<" ","{">>) \in content
                    /\ (<<" "," ">> \o mapTokenToProperty(replaceFirst(n, <<"-">> \o states[k], <<>>))
                          \o <<":"," ","v","a","r","(","-","-">> \o n \o <<")",";">>) \in content
            /\ \A n \in names :
                 (~HasStateSuffix(n) /\ mapTokenToProperty(n) # <<>>)
                 => (<<" "," ">> \o mapTokenToProperty(n) \o <<":"," ","v","a","r","(","-","-">> \o n \o <<")",";">>) \in content

\* the bucket the claim gives a category, the document of a bucket, and the
\* buckets of generateBaseFile that hold a category
ExpectedBucket(name) ==
  IF includes(toLowerCase(name), <<"l","i","g","h","t">>) THEN "light"
  ELSE IF includes(toLowerCase(name), <<"d","a","r","k">>) THEN "dark"
  ELSE "base"

BucketPath(bucket) ==
  CASE bucket = "light" -> <<"b","a","s","e","/","_","l","i","g","h","t",".","s","c","s","s">>
    [] bucket = "dark"  -> <<"b","a","s","e","/","_","d","a","r","k",".","s","c","s","s">>
    [] OTHER            -> <<"b","a","s","e","/","_","v","a","r","i","a","b","l","e","s",".","s","c","s","s">>

BucketsOf(category) ==
  { b \in {"base", "light", "dark"} :
      category \in Range(CASE b = "light" -> ThemeLight(categories)
                           [] b = "dark"  -> ThemeDark(categories)
                           [] OTHER       -> BaseTokens(categories)) }

\* C8: every category is in exactly one of the buckets base, light and
\* dark: light when its lower-cased name holds "light", else dark when it
\* holds "dark", else base; its declarations are written to the document of
\* that bucket, and its component document imports the theme document of
\* that bucket.
C8_OneBucketAndItsImport ==
  Flattened =>
    \A i \in DOMAIN categories :
      LET name      == categories[i].key
          component == FileContent(ComponentPath(name))
      IN  /\ BucketsOf(categories[i]) = { ExpectedBucket(name) }
          /\ \A k \in DOMAIN categories[i].variables :
               (<<" "," ">> \o (IF ExpectedBucket(name) = "base"
                         THEN categories[i].variables[k]
                         ELSE RemoveThemeSuffix(categories[i].variables[k])))
                 \in Range(FileContent(BucketPath(ExpectedBucket(name))))
          /\ FileExists(ComponentPath(name)) =>
               /\ ImportedThemePath(component) = BucketPath(ExpectedBucket(name))
               /\ Cardinality({ k \in DOMAIN component :
                                  startsWith(component[k], <<"@","i","m","p","o","r","t"," ","'",".",".","/","b","a","s","e","/">>)
                                    /\ component[k] # <<"@","i","m","p","o","r","t"," ","'",".",".","/","b","a","s","e","/","v","a","r","i","a","b","l","e","s","'",";">> })
                    = IF ExpectedBucket(name) = "base" THEN 0 ELSE 1

\* a run has ended with the component document of a category whose name
\* holds both "dark" and "light", and which holds a declaration
C8_Witness ==
  /\ pc = "done"
  /\ \E i \in DOMAIN categories :
       /\ includes(categories[i].key, <<"l","i","g","h","t">>)
       /\ includes(categories[i].key, <<"d","a","r","k">>)
       /\ Len(categories[i].variables) > 0
       /\ FileExists(ComponentPath(categories[i].key))

\* the string is one placeholder and nothing else
IsSinglePlaceholder(s) ==
  /\ Len(s) > 2
  /\ s[1] = "{"
  /\ s[Len(s)] = "}"
  /\ \A k \in 2..(Len(s) - 1) : s[k] \notin {"{", "}"}

\* C9: processStringReferences wraps its result in calc(...) only for an
\* arithmetic expression: a string that is one placeholder {path} resolves
\* to exactly var(--<path>), and "{spacing.sm} + 4" resolves to
\* "calc(var(--spacing-sm) + 4)".
C9_CalcOnlyForArithmetic ==
  rOut.done =>
    /\ IsSinglePlaceholder(rIn.str) =>
         rOut.s = <<"v","a","r","(","-","-">>
                    \o normalizeReferencePath(trim(SubSeq(rIn.str, 2, Len(rIn.str) - 1)))
                    \o <<")">>
    /\ rIn.str = <<"{","s","p","a","c","i","n","g",".","s","m","}"," ","+"," ","4">> => rOut.s = <<"c","a","l","c","(","v","a","r","(","-","-","s","p","a","c","i","n","g","-","s","m",")"," ","+"," ","4",")">>

\* the value of the leaf is an object that is no shadow, border or
\* typography value and has no value field of its own
IsUnrecognizedObject(node) ==
  /\ IsObject(LeafValue(node))
  /\ IsUndefined(Get(LeafValue(node), <<"v","a","l","u","e">>))
  /\ ~IsString(TokenType(node), <<"b","o","x","S","h","a","d","o","w">>)
  /\ ~IsString(TokenType(node), <<"b","o","r","d","e","r">>)
  /\ ~IsString(TokenType(node), <<"t","y","p","o","g","r","a","p","h","y">>)
  /\ ~isBoxShadow(LeafValue(node))

\* C10: for a leaf token whose value is an object of no recognized shape,
\* the declaration flattenTokens stores is "--p: <JSON of the object>;".
C10_RawJsonDeclaration ==
  Flattened =>
    \A leaf \in AllLeaves :
      IsUnrecognizedObject(leaf.node) =>
        (<<"-","-">> \o leaf.path \o <<":"," ">> \o JSONStringify(LeafValue(leaf.node)) \o <<";">>)
          \in VariablesOf(leaf.category)


\* the line is an import of the index document
IsImportLine(line) ==
  /\ startsWith(line, <<"@","i","m","p","o","r","t"," ","'">>)
  /\ Len(line) > 11
  /\ SubSeq(line, Len(line) - 1, Len(line)) = <<"'",";">>

\* the document an import "<dir>/<name>" of the index document names: the
\* partial "<dir>/_<name>.scss"
ImportedDocument(line) ==
  LET target == SubSeq(line, 10, Len(line) - 2)
      at == IndexFrom(target, <<"/">>, 1)
  IN  SubSeq(target, 1, at) \o <<"_">> \o SubSeq(target, at + 1, Len(target)) \o <<".","s","c","s","s">>

\* the documents that the index document imports
IndexImports ==
  LET content == FileContent(<<"i","n","d","e","x",".","s","c","s","s">>)
  IN  { ImportedDocument(content[i]) : i \in { j \in DOMAIN content : IsImportLine(content[j]) } }

\* C11: after generateSCSS every document that the index document imports
\* (base/variables, base/light, base/dark, each components/<category>) is a
\* document that the run has written.
C11_IndexImportsAreEmitted ==
  pc = "done" =>
    \A path \in IndexImports : FileExists(path)
====
